---- MODULE Spec2Model ----
(***************************************************************************)
(* A model of run.py, the TOML compliance suite runner: fixture location,  *)
(* marker filtering, the process harness, the decode and encode checks and *)
(* the reporting loop.  External programs and file contents are inputs:    *)
(* each invocation's exit status, stderr and stdout, and each fixture's    *)
(* text, are chosen nondeterministically when the code observes them.      *)
(***************************************************************************)
EXTENDS Integers, Sequences, FiniteSets, TLC

(* ---------------------------------------------------------------------- *)
(* Bounds and input domains                                               *)
(* ---------------------------------------------------------------------- *)

\* Largest number of fixture files in the corpus of the selected version.
MaxFiles == 3

\* argparse's nargs=1: -m stores a list holding exactly one marker.
NArgs == 1

\* Python's None, and a present value.
None == <<>>
Some(x) == <<x>>

\* Strings that are searched for substrings are sequences of characters.
Invalid == <<"i", "n", "v", "a", "l", "i", "d">>
Valid == <<"v", "a", "l", "i", "d">>

\* File stems found in the corpus, and the markers a user may give.
StemSet == {<<"a">>, <<"a", "b">>}
MarkerSet == {<<"b">>, Invalid}

\* JSON texts.  DocAB and DocBA differ as text and denote the same object.
DocAB == "{\"a\": 1, \"b\": 2}"
DocBA == "{\"b\":2,\"a\":1}"
DocStr == "{\"a\": \"1\", \"b\": 2}"
DocTrunc == "{"
DocBadUtf8 == "\\xff"
Docs == {DocAB, DocBA, DocStr, DocTrunc, DocBadUtf8}
\* Fixture files are read as text (read_text); they hold valid UTF-8.
FixtureDocs == {DocAB, DocBA, DocStr, DocTrunc}
\* What an encoder writes is opaque to the runner.
TomlDocs == {"a = 1"}

ReturnCodes == {0, 1}
StderrSet == {"", "E"}

\* The ways one subprocess.run can end: OSError at launch, or a completed
\* process with its return code, stderr and stdout.
Outcomes(program) ==
    {[launched |-> FALSE, returncode |-> 0, stderr |-> "", stdout |-> ""]}
    \cup [launched : {TRUE}, returncode : ReturnCodes, stderr : StderrSet,
          stdout : IF program = "decoder" THEN Docs ELSE TomlDocs]

\* The states of a program file that ensure_executable tells apart.
FileStates == {"executable", "missing", "not executable"}

\* Directory listings: sequences of distinct stems, in any order.
Listings(n) ==
    {s \in UNION {[1..k -> StemSet] : k \in 0..n} :
        \A i, j \in 1..Len(s) : i # j => s[i] # s[j]}

\* tests/<version>: the *.toml and *.json of invalid/, the *.toml of valid/
\* and the stems of valid/ that have a *.json.
TestsDirs ==
    {t \in [invalid_toml : Listings(MaxFiles), invalid_json : Listings(MaxFiles),
            valid_toml : Listings(MaxFiles), valid_json : SUBSET StemSet] :
        /\ Len(t.invalid_toml) + Len(t.invalid_json) + Len(t.valid_toml) <= MaxFiles
        /\ t.valid_json \subseteq {t.valid_toml[i] : i \in 1..Len(t.valid_toml)}}

\* args.markers: None (written <<>>) or the one-element list of -m.
MarkerLists == {None} \cup [1..NArgs -> MarkerSet]

VARIABLES
    mode,        \* "encoder" | "decoder": should_run_encoder_tests
    tests_dir,   \* the corpus of the selected version
    markers,     \* args.markers
    pc,          \* position of the run
    pos,         \* number of pairs taken from _locate_test_pairs
    kwargs,      \* None, or the (name, kwargs) of the case being checked
    content,     \* bytes held between two steps of a check
    input_json,  \* test_encoder's input_json
    calls,       \* run_program calls of the current case
    parsed,      \* load_json calls of the current case
    raised,      \* None, or the exception the checker raised for the case
    counts,      \* run_with_reporting's counts
    results,     \* completed cases, in order, with how each ended
    last,        \* None, or the last case report printed
    summary,     \* None, or what _show_summary printed
    exit_code,   \* None, or the code given to sys.exit
    error        \* None, or the exception that ended the run

inputs == <<mode, tests_dir, markers>>
check == <<kwargs, content, input_json, calls, parsed, raised>>
report == <<counts, results, last>>
ending == <<summary, exit_code, error>>
vars == <<mode, tests_dir, markers, pc, pos, kwargs, content, input_json, calls,
          parsed, raised, counts, results, last, summary, exit_code, error>>

(* ---------------------------------------------------------------------- *)
(* Filesystem interaction                                                 *)
(* ---------------------------------------------------------------------- *)

\* A pathlib.Path below tests/<version>: parent.name, stem and suffix.
Path(parent, stem, suffix) == [parent |-> parent, stem |-> stem, suffix |-> suffix]

\* What a generator hands to its consumer: the next pair, or an exception.
Yield(toml_file, json_file) ==
    [kind |-> "yield", toml_file |-> toml_file, json_file |-> json_file]
Raise(exc) == [kind |-> exc, toml_file |-> None, json_file |-> None]

\* ValidPair without the assertion: the pair is yielded whether or not the
\* JSON equivalent exists.
ValidPair_unchecked(tests, stem) ==
    Yield(Some(Path(Valid, stem, ".toml")), Some(Path(Valid, stem, ".json")))

\* One element of the third loop of _locate_test_pairs: the assertion that
\* the JSON equivalent exists, then the pair.
ValidPair(tests, stem) ==
    IF stem \in tests.valid_json
    THEN Yield(Some(Path(Valid, stem, ".toml")), Some(Path(Valid, stem, ".json")))
    ELSE Raise("AssertionError")

\* _locate_test_pairs: what the generator produces, element by element.  It
\* is consumed lazily; an element that raises ends it.
_locate_test_pairs(tests) ==
    [i \in 1..Len(tests.invalid_toml) |->
        Yield(Some(Path(Invalid, tests.invalid_toml[i], ".toml")), None)]
    \o [i \in 1..Len(tests.invalid_json) |->
        Yield(None, Some(Path(Invalid, tests.invalid_json[i], ".json")))]
    \o [i \in 1..Len(tests.valid_toml) |-> ValidPair(tests, tests.valid_toml[i])]

\* Python's "m in s" on strings.
IsSubstring(m, s) ==
    \E i \in 0..(Len(s) - Len(m)) : SubSeq(s, i + 1, i + Len(m)) = m

\* The for loop of marker_filter from marker ms[i] on: "True", "False", or
\* the AttributeError of pair[0].stem when pair[0] is None.
RECURSIVE marker_loop(_, _, _)
marker_loop(pair, ms, i) ==
    IF i > Len(ms) THEN "False"
    ELSE IF pair.toml_file = None THEN "AttributeError"
    ELSE IF IsSubstring(ms[i], pair.toml_file[1].stem) THEN "True"
    ELSE IF ms[i] = pair.toml_file[1].parent THEN "True"
    ELSE marker_loop(pair, ms, i + 1)

\* marker_filter of _filter_based_on_markers.
marker_filter(pair, ms) ==
    IF Len(ms) = 0 THEN "True" ELSE marker_loop(pair, ms, 1)

\* generate_parameters of decoder_compliance and of encoder_compliance: the
\* (name, kwargs) made from a pair, or None for a pair that is skipped.
generate_parameters(m, pair) ==
    IF m = "decoder"
    THEN IF pair.toml_file = None THEN None
         ELSE Some([name |-> pair.toml_file[1], toml_file |-> pair.toml_file,
                    json_file |-> pair.json_file,
                    clean_exit |-> pair.json_file # None])
    ELSE IF pair.json_file = None THEN None
         ELSE Some([name |-> pair.json_file[1], toml_file |-> None,
                    json_file |-> pair.json_file,
                    clean_exit |-> pair.toml_file # None])

\* One next() on generate_parameters() with i pairs already taken from
\* _locate_test_pairs: get_test_pairs filters the located pairs, the
\* parameter generator skips those it cannot use.  The result is a case,
\* StopIteration, or the exception raised on the way.
RECURSIVE next_parameters(_, _, _, _)
next_parameters(located, ms, m, i) ==
    IF i >= Len(located)
    THEN [kind |-> "StopIteration", pos |-> i, case |-> None]
    ELSE LET item == located[i + 1] IN
         IF item.kind # "yield"
         THEN [kind |-> item.kind, pos |-> i + 1, case |-> None]
         ELSE LET keep == marker_filter(item, ms) IN
              IF keep = "AttributeError"
              THEN [kind |-> "AttributeError", pos |-> i + 1, case |-> None]
              ELSE IF keep = "False"
              THEN next_parameters(located, ms, m, i + 1)
              ELSE LET params == generate_parameters(m, item) IN
                   IF params = None
                   THEN next_parameters(located, ms, m, i + 1)
                   ELSE [kind |-> "yield", pos |-> i + 1, case |-> params]

\* ensure_executable on a program file in the given state.
ensure_executable(state) ==
    CASE state = "missing" -> "FileNotFoundError"
      [] state = "not executable" -> "PermissionError"
      [] OTHER -> "return"

(* ---------------------------------------------------------------------- *)
(* Input / output handling                                                *)
(* ---------------------------------------------------------------------- *)

\* Failed.__init__: the reason, and the details made from cause or diff.
\* repr(cause) and the rendered ndiff are kept as what they are made from.
Failed(reason, details) ==
    [kind |-> "Failed", reason |-> reason, details |-> details, value |-> ""]
Return(value) ==
    [kind |-> "return", reason |-> "", details |-> None, value |-> value]
Error(exc) ==
    [kind |-> exc, reason |-> "", details |-> None, value |-> ""]

CouldNotRun(program) ==
    IF program = "decoder" THEN "could not run: decoder" ELSE "could not run: encoder"
NonZeroExit(returncode) ==
    IF returncode = 1 THEN "Got a non-zero exit code: 1"
    ELSE "Got a non-zero exit code: other"

\* run_program without the check of stderr.
run_program_ignores_stderr(program, o, clean_exit) ==
    IF ~o.launched THEN Failed(CouldNotRun(program), <<"cause", "OSError">>)
    ELSE IF clean_exit
    THEN IF o.returncode # 0 THEN Failed(NonZeroExit(o.returncode), None)
         ELSE Return(o.stdout)
    ELSE IF o.returncode = 0 THEN Failed("Should have rejected input.", None)
         ELSE Return(o.stdout)

\* run_program with the check of stderr before that of the return code.
run_program_stderr_first(program, o, clean_exit) ==
    IF ~o.launched THEN Failed(CouldNotRun(program), <<"cause", "OSError">>)
    ELSE IF clean_exit
    THEN IF o.stderr # "" THEN Failed("Got stderr output!", <<"cause", o.stderr>>)
         ELSE IF o.returncode # 0 THEN Failed(NonZeroExit(o.returncode), None)
         ELSE Return(o.stdout)
    ELSE IF o.returncode = 0 THEN Failed("Should have rejected input.", None)
         ELSE Return(o.stdout)

\* run_program, given how the subprocess ended.
run_program(program, o, clean_exit) ==
    IF ~o.launched THEN Failed(CouldNotRun(program), <<"cause", "OSError">>)
    ELSE IF clean_exit
    THEN IF o.returncode # 0 THEN Failed(NonZeroExit(o.returncode), None)
         ELSE IF o.stderr # "" THEN Failed("Got stderr output!", <<"cause", o.stderr>>)
         ELSE Return(o.stdout)
    ELSE IF o.returncode = 0 THEN Failed("Should have rejected input.", None)
         ELSE Return(o.stdout)

\* A JSON object: its members as (key, type, value).
ObjAB == {<<"a", "int", "1">>, <<"b", "int", "2">>}
ObjStr == {<<"a", "str", "1">>, <<"b", "int", "2">>}

\* json.loads on the texts of Docs: the object, json.JSONDecodeError for
\* text that is not JSON, UnicodeDecodeError for bytes that are not text.
json_loads(doc) ==
    CASE doc = DocAB -> [kind |-> "return", value |-> ObjAB]
      [] doc = DocBA -> [kind |-> "return", value |-> ObjAB]
      [] doc = DocStr -> [kind |-> "return", value |-> ObjStr]
      [] doc = DocBadUtf8 -> [kind |-> "UnicodeDecodeError", value |-> {}]
      [] OTHER -> [kind |-> "JSONDecodeError", value |-> {}]

CouldNotParse(source) ==
    IF source = "decoder's output" THEN "Could not parse decoder's output JSON"
    ELSE "Could not parse test case input JSON"

\* load_json: only json.JSONDecodeError becomes Failed.
load_json(doc, source) ==
    LET r == json_loads(doc) IN
    CASE r.kind = "return" ->
            [kind |-> "return", reason |-> "", details |-> None, value |-> r.value]
      [] r.kind = "JSONDecodeError" ->
            [kind |-> "Failed", reason |-> CouldNotParse(source),
             details |-> <<"cause", "JSONDecodeError">>, value |-> {}]
      [] OTHER ->
            [kind |-> r.kind, reason |-> "", details |-> None, value |-> {}]

\* The record kept of one load_json call.
Parsed(source, doc, r) == [source |-> source, doc |-> doc, kind |-> r.kind]

(* ---------------------------------------------------------------------- *)
(* Actual compliance checks                                               *)
(* ---------------------------------------------------------------------- *)

\* The record kept of one run_program call.
Call(program, clean_exit, o, r) ==
    [program |-> program, clean_exit |-> clean_exit, outcome |-> o,
     kind |-> r.kind, reason |-> r.reason, details |-> r.details,
     value |-> r.value]

\* test_decoder after run_program returned out: json_file.read_text() gives
\* doc; both texts are parsed and the objects compared.
decode_compare(json_file, doc, out) ==
    IF json_file = None THEN [r |-> Error("AttributeError"), parsed |-> <<>>]
    ELSE LET correct_json == load_json(doc, "test case input")
             decoded_json == load_json(out, "decoder's output")
             p1 == Parsed("test case input", doc, correct_json)
             p2 == Parsed("decoder's output", out, decoded_json)
         IN  IF correct_json.kind # "return"
             THEN [r |-> correct_json, parsed |-> <<p1>>]
             ELSE IF decoded_json.kind # "return"
             THEN [r |-> decoded_json, parsed |-> <<p1, p2>>]
             ELSE IF correct_json.value # decoded_json.value
             THEN [r |-> Failed("Mismatch between expected JSON and decoded JSON.",
                                <<"diff", correct_json.value, decoded_json.value>>),
                   parsed |-> <<p1, p2>>]
             ELSE [r |-> Return(""), parsed |-> <<p1, p2>>]

\* test_encoder from the decoding of the encoder's result on: the decoder
\* must exit cleanly, its output is parsed and compared with input_json.
round_trip(original, o) ==
    LET decoded == run_program("decoder", o, TRUE)
        round_trip_json == load_json(decoded.value, "decoder's output")
        p == Parsed("decoder's output", decoded.value, round_trip_json)
    IN  IF decoded.kind # "return" THEN [r |-> decoded, parsed |-> <<>>]
        ELSE IF round_trip_json.kind # "return"
        THEN [r |-> round_trip_json, parsed |-> <<p>>]
        ELSE IF original # round_trip_json.value
        THEN [r |-> Failed("Mismatch between original JSON and encoded-decoded JSON.",
                           <<"diff", original, round_trip_json.value>>),
              parsed |-> <<p>>]
        ELSE [r |-> Return(""), parsed |-> <<p>>]

(* ---------------------------------------------------------------------- *)
(* Check runners                                                          *)
(* ---------------------------------------------------------------------- *)

\* An except clause that catches every exception.
Catches_everything(exc) == TRUE

\* The except clause of run_with_reporting.
Catches(exc) == exc = "Failed"

\* A tally that counts every case as a failure.
Tally_as_fail(c, key) == [c EXCEPT !["fail"] = @ + 1]

\* counts[key] += 1
Tally(c, key) == [c EXCEPT ![key] = @ + 1]

\* _show_summary: what is printed for the counts.
_show_summary(c) ==
    LET total == c.fail + c.pass IN
    IF total = 0
    THEN [text |-> "No tests were selected!", passed |-> 0, total |-> 0]
    ELSE [text |-> "Summary", passed |-> c.pass, total |-> total]

\* A return value that lets an empty selection pass.
return_code_ignores_empty(c) ==
    IF c.fail # 0 THEN 1 ELSE 0

\* The value run_with_reporting returns.
return_code(c) ==
    IF c.fail # 0 \/ c.fail + c.pass = 0 THEN 1 ELSE 0

\* The check goes on to its next statement.
Continue(next) ==
    /\ pc' = next
    /\ UNCHANGED <<raised, counts, results, last, error>>

\* The check returned: the else clause of the try.
Passed ==
    /\ pc' = "loop"
    /\ last' = Some([name |-> kwargs[1].name, status |-> "PASS", reason |-> "",
                     details |-> None])
    /\ counts' = Tally(counts, "pass")
    /\ results' = Append(results, [name |-> kwargs[1].name, outcome |-> "pass"])
    /\ UNCHANGED <<raised, error>>

\* The check raised r: Failed is reported and counted, anything else leaves
\* run_with_reporting and ends the run.
Raised(r) ==
    /\ raised' = Some(r.kind)
    /\ IF Catches(r.kind)
       THEN /\ pc' = "loop"
            /\ last' = Some([name |-> kwargs[1].name, status |-> "FAIL",
                             reason |-> r.reason, details |-> r.details])
            /\ counts' = Tally(counts, "fail")
            /\ results' = Append(results, [name |-> kwargs[1].name, outcome |-> r.kind])
            /\ error' = error
       ELSE /\ pc' = "aborted"
            /\ error' = Some([exc |-> r.kind, where |-> "checker"])
            /\ UNCHANGED <<counts, results, last>>

Ended(r) == IF r.kind = "return" THEN Passed ELSE Raised(r)

Init ==
    /\ mode \in {"encoder", "decoder"}
    /\ tests_dir \in TestsDirs
    /\ markers \in MarkerLists
    /\ pc = "main"
    /\ pos = 0
    /\ kwargs = None
    /\ content = ""
    /\ input_json = {}
    /\ calls = <<>>
    /\ parsed = <<>>
    /\ raised = None
    /\ counts = [fail |-> 0, pass |-> 0]
    /\ results = <<>>
    /\ last = None
    /\ summary = None
    /\ exit_code = None
    /\ error = None

\* encoder_compliance / decoder_compliance up to the call of
\* run_with_reporting: the executables are checked first.
EnsureExecutable ==
    /\ pc = "main"
    /\ \E es, ds \in FileStates :
        LET e == IF mode = "encoder" THEN ensure_executable(es) ELSE "return"
            d == ensure_executable(ds)
            exc == IF e # "return" THEN e ELSE d
        IN  IF exc = "return"
            THEN pc' = "loop" /\ error' = error
            ELSE pc' = "aborted" /\ error' = Some([exc |-> exc, where |-> "setup"])
    /\ UNCHANGED <<inputs, pos, check, report, summary, exit_code>>

\* The for statement of run_with_reporting takes the next case.
LoopNext ==
    /\ pc = "loop"
    /\ LET n == next_parameters(_locate_test_pairs(tests_dir), markers, mode, pos) IN
        /\ n.kind = "yield"
        /\ pos' = n.pos
        /\ kwargs' = n.case
        /\ pc' = IF mode = "decoder" THEN "test_decoder" ELSE "test_encoder"
    /\ content' = ""
    /\ input_json' = {}
    /\ calls' = <<>>
    /\ parsed' = <<>>
    /\ raised' = None
    /\ UNCHANGED <<inputs, report, ending>>

\* The cases are exhausted: summary, return value, sys.exit.
LoopEnd ==
    /\ pc = "loop"
    /\ LET n == next_parameters(_locate_test_pairs(tests_dir), markers, mode, pos) IN
        /\ n.kind = "StopIteration"
        /\ pos' = n.pos
    /\ summary' = Some(_show_summary(counts))
    /\ exit_code' = Some(return_code(counts))
    /\ pc' = "done"
    /\ UNCHANGED <<inputs, check, report, error>>

\* Taking the next case raised: the exception leaves run_with_reporting.
LoopRaise ==
    /\ pc = "loop"
    /\ LET n == next_parameters(_locate_test_pairs(tests_dir), markers, mode, pos) IN
        /\ n.kind \notin {"yield", "StopIteration"}
        /\ pos' = n.pos
        /\ error' = Some([exc |-> n.kind, where |-> "generator"])
    /\ pc' = "aborted"
    /\ UNCHANGED <<inputs, check, report, summary, exit_code>>

\* test_decoder: the decoder is run on the TOML file.
TestDecoderRun ==
    /\ pc = "test_decoder"
    /\ \E o \in Outcomes("decoder") :
        LET r == run_program("decoder", o, kwargs[1].clean_exit) IN
        /\ calls' = Append(calls, Call("decoder", kwargs[1].clean_exit, o, r))
        /\ IF r.kind = "return"
           THEN content' = r.value /\ Continue("test_decoder_compare")
           ELSE content' = "" /\ Raised(r)
    /\ UNCHANGED <<inputs, pos, kwargs, input_json, parsed, summary, exit_code>>

\* test_decoder: the expected and the decoded JSON are loaded and compared.
TestDecoderCompare ==
    /\ pc = "test_decoder_compare"
    /\ \E doc \in FixtureDocs :
        LET c == decode_compare(kwargs[1].json_file, doc, content) IN
        /\ parsed' = c.parsed
        /\ Ended(c.r)
    /\ content' = ""
    /\ UNCHANGED <<inputs, pos, kwargs, input_json, calls, summary, exit_code>>

\* test_encoder: the input JSON is loaded.
TestEncoderLoad ==
    /\ pc = "test_encoder"
    /\ \E doc \in FixtureDocs :
        LET r == load_json(doc, "test case input") IN
        /\ parsed' = <<Parsed("test case input", doc, r)>>
        /\ IF r.kind = "return"
           THEN input_json' = r.value /\ Continue("test_encoder_encode")
           ELSE input_json' = {} /\ Raised(r)
    /\ UNCHANGED <<inputs, pos, kwargs, content, calls, summary, exit_code>>

\* test_encoder: the encoder is run on the JSON file.
TestEncoderEncode ==
    /\ pc = "test_encoder_encode"
    /\ \E o \in Outcomes("encoder") :
        LET r == run_program("encoder", o, kwargs[1].clean_exit) IN
        /\ calls' = Append(calls, Call("encoder", kwargs[1].clean_exit, o, r))
        /\ IF r.kind = "return"
           THEN content' = r.value /\ input_json' = input_json
                /\ Continue("test_encoder_decode")
           ELSE content' = "" /\ input_json' = {} /\ Raised(r)
    /\ UNCHANGED <<inputs, pos, kwargs, parsed, summary, exit_code>>

\* test_encoder: the result is decoded and compared with the input.
TestEncoderDecode ==
    /\ pc = "test_encoder_decode"
    /\ \E o \in Outcomes("decoder") :
        LET c == round_trip(input_json, o) IN
        /\ calls' = Append(calls, Call("decoder", TRUE, o, run_program("decoder", o, TRUE)))
        /\ parsed' = parsed \o c.parsed
        /\ Ended(c.r)
    /\ content' = ""
    /\ input_json' = {}
    /\ UNCHANGED <<inputs, pos, kwargs, summary, exit_code>>

Next ==
    \/ EnsureExecutable
    \/ LoopNext
    \/ LoopEnd
    \/ LoopRaise
    \/ TestDecoderRun
    \/ TestDecoderCompare
    \/ TestEncoderLoad
    \/ TestEncoderEncode
    \/ TestEncoderDecode

Spec == Init /\ [][Next]_vars

(* ---------------------------------------------------------------------- *)
(* Properties                                                             *)
(* ---------------------------------------------------------------------- *)

CheckPcs == {"test_decoder", "test_decoder_compare", "test_encoder",
             "test_encoder_encode", "test_encoder_decode"}

\* The check of the case in kwargs has ended (returned or raised).
CaseOver == kwargs # None /\ pc \notin CheckPcs /\ pc # "main"

\* The case in kwargs was reported as passed.
CasePassed ==
    /\ raised = None
    /\ results # <<>>
    /\ results[Len(results)] = [name |-> kwargs[1].name, outcome |-> "pass"]
    /\ last = Some([name |-> kwargs[1].name, status |-> "PASS", reason |-> "",
                    details |-> None])

\* The case in kwargs was reported as failed.
CaseFailed ==
    /\ raised = Some("Failed")
    /\ results # <<>>
    /\ results[Len(results)] = [name |-> kwargs[1].name, outcome |-> "Failed"]
    /\ last # None
    /\ last[1].name = kwargs[1].name
    /\ last[1].status = "FAIL"

Names(rs) == [i \in 1..Len(rs) |-> rs[i].name]
CountOf(rs, outcome) == Cardinality({i \in 1..Len(rs) : rs[i].outcome = outcome})

\* The names of the cases the parameter generator yields from pair i on,
\* up to its end or to the first exception.
RECURSIVE Cases(_)
Cases(i) ==
    LET n == next_parameters(_locate_test_pairs(tests_dir), markers, mode, i) IN
    IF n.kind = "yield" THEN <<n.case[1].name>> \o Cases(n.pos) ELSE <<>>

\* C1: run_with_reporting returns 1 exactly when some case raised Failed or
\* no case ran, and 0 otherwise.
C1_ExitCode ==
    pc = "done" =>
        exit_code = Some(IF results = <<>> \/ CountOf(results, "Failed") > 0
                         THEN 1 ELSE 0)

C1_Witness ==
    /\ pc = "done"
    /\ exit_code = Some(1)
    /\ CountOf(results, "pass") > 0
    /\ CountOf(results, "Failed") > 0

\* C5: a launched program's stdout is returned exactly when a clean exit was
\* expected and the program exited 0 with empty stderr, or a rejection was
\* expected and it exited non-zero; otherwise Failed is raised and nothing
\* is returned.
C5_RunProgram ==
    /\ \A i \in 1..Len(calls) :
        LET c == calls[i]
            o == c.outcome
        IN  o.launched =>
                /\ c.kind = "return" <=>
                      \/ c.clean_exit /\ o.returncode = 0 /\ o.stderr = ""
                      \/ ~c.clean_exit /\ o.returncode # 0
                /\ c.kind = "return" => c.value = o.stdout
                /\ c.kind # "return" => c.kind = "Failed" /\ c.value = ""
    /\ pc \in {"test_decoder_compare", "test_encoder_decode"} =>
        /\ calls # <<>>
        /\ calls[Len(calls)].outcome.launched
        /\ content = calls[Len(calls)].outcome.stdout

C5_Witness ==
    \E i \in 1..Len(calls) :
        /\ calls[i].clean_exit
        /\ calls[i].outcome.launched
        /\ calls[i].outcome.returncode = 0
        /\ calls[i].outcome.stderr # ""
        /\ calls[i].kind = "Failed"

\* C6 as amended: when a clean exit was expected and the program exits
\* non-zero with bytes on stderr, the failure reports the exit status alone;
\* stderr is reported only when the exit status is 0.
C6_FirstOnly ==
    \A i \in 1..Len(calls) :
        LET c == calls[i]
            o == c.outcome
        IN  (c.clean_exit /\ o.launched /\ o.stderr # "") =>
                /\ c.kind = "Failed"
                /\ o.returncode # 0 =>
                      c.reason = NonZeroExit(o.returncode) /\ c.details = None
                /\ o.returncode = 0 =>
                      c.reason = "Got stderr output!" /\ c.details = <<"cause", o.stderr>>

C6_Witness ==
    /\ CaseOver
    /\ CaseFailed
    /\ calls # <<>>
    /\ calls[Len(calls)].clean_exit
    /\ calls[Len(calls)].outcome.launched
    /\ calls[Len(calls)].outcome.returncode # 0
    /\ calls[Len(calls)].outcome.stderr # ""
    /\ last[1].reason = NonZeroExit(calls[Len(calls)].outcome.returncode)
    /\ last[1].details = None

\* C6 as claimed: such a failure reports both the non-zero exit status and
\* the stderr output.
C6_BothReported ==
    \A i \in 1..Len(calls) :
        LET c == calls[i]
            o == c.outcome
        IN  (c.clean_exit /\ o.launched /\ o.returncode # 0 /\ o.stderr # "") =>
                /\ c.kind = "Failed"
                /\ c.reason = NonZeroExit(o.returncode)
                /\ c.details = <<"cause", o.stderr>>

\* C8: the checker is invoked once per case in order, a Failed case is
\* counted and the loop goes on, each completed case adds 1 to exactly one
\* counter, and the summary total is the number of cases.
C8_Counting ==
    /\ counts.pass = CountOf(results, "pass")
    /\ counts.fail = CountOf(results, "Failed")
    /\ counts.pass + counts.fail = Len(results)
    /\ Len(results) <= Len(Cases(0))
    /\ Names(results) = SubSeq(Cases(0), 1, Len(results))
    /\ (CaseOver /\ raised = Some("Failed")) =>
            /\ CaseFailed
            /\ error = None \/ error[1].where # "checker"
    /\ pc \in CheckPcs =>
            /\ Len(results) < Len(Cases(0))
            /\ kwargs[1].name = Cases(0)[Len(results) + 1]
    /\ pc = "done" =>
            /\ Len(results) = Len(Cases(0))
            /\ summary # None
            /\ summary[1].total = Len(Cases(0))
            /\ summary[1].passed = CountOf(results, "pass")

C8_Witness ==
    /\ pc = "done"
    /\ Len(results) = 3
    /\ results[1].outcome = "Failed"
    /\ results[2].outcome = "pass"
    /\ results[3].outcome = "Failed"
    /\ summary = Some([text |-> "Summary", passed |-> 1, total |-> 3])

\* C10: an exception of the checker that is not Failed is not caught: the
\* case is counted neither as pass nor as fail, no summary is printed, no
\* exit code is returned and the run has ended with that exception.
C10_Propagates ==
    (raised # None /\ raised[1] # "Failed") =>
        /\ pc = "aborted"
        /\ error = Some([exc |-> raised[1], where |-> "checker"])
        /\ summary = None
        /\ exit_code = None
        /\ counts.pass + counts.fail = Len(results)
        /\ Len(results) < Len(Cases(0))
        /\ Names(results) = SubSeq(Cases(0), 1, Len(results))
        /\ kwargs[1].name = Cases(0)[Len(results) + 1]

C10_Witness ==
    /\ raised = Some("UnicodeDecodeError")
    /\ pc = "aborted"
    /\ Len(results) = 1
    /\ Len(Cases(0)) = 3

\* C2: for a valid pair the decode check succeeds exactly when the decoder
\* exits 0 with empty stderr, both JSON texts parse and the objects are
\* equal; otherwise it raises Failed, whose reason tells an unparsable
\* fixture from unparsable decoder output and from a mismatch with its diff.
C2_DecodeCheck ==
    (mode = "decoder" /\ CaseOver /\ kwargs[1].json_file # None) =>
        LET o == calls[1].outcome
            clean == o.launched /\ o.returncode = 0 /\ o.stderr = ""
            fixture_parses == Len(parsed) >= 1 /\ parsed[1].kind = "return"
            output_parses == Len(parsed) = 2 /\ parsed[2].kind = "return"
            equal == json_loads(parsed[1].doc).value = json_loads(parsed[2].doc).value
        IN  /\ CasePassed <=> (clean /\ fixture_parses /\ output_parses /\ equal)
            /\ ~CasePassed =>
                /\ CaseFailed
                /\ (clean /\ ~fixture_parses) =>
                      last[1].reason = "Could not parse test case input JSON"
                /\ (clean /\ fixture_parses /\ ~output_parses) =>
                      last[1].reason = "Could not parse decoder's output JSON"
                /\ (clean /\ fixture_parses /\ output_parses) =>
                      /\ last[1].reason = "Mismatch between expected JSON and decoded JSON."
                      /\ last[1].details = <<"diff", json_loads(parsed[1].doc).value,
                                             json_loads(parsed[2].doc).value>>

\* C3: in decoder mode an invalid format-only case passes when the decoder
\* exits non-zero and fails with "Should have rejected input." when it exits
\* 0; no JSON is parsed either way.
C3_InvalidDecode ==
    (mode = "decoder" /\ CaseOver /\ kwargs[1].json_file = None
        /\ calls[1].outcome.launched) =>
        /\ calls[1].outcome.returncode # 0 => CasePassed /\ pc # "aborted"
        /\ calls[1].outcome.returncode = 0 =>
              CaseFailed /\ last[1].reason = "Should have rejected input."
        /\ parsed = <<>>

\* C4: when the encoder is expected to reject, the decoder is never run and
\* the check passes exactly when the encoder exits non-zero.
C4_EncoderRejects ==
    (mode = "encoder" /\ kwargs # None /\ ~kwargs[1].clean_exit) =>
        /\ \A i \in 1..Len(calls) : calls[i].program # "decoder"
        /\ pc # "test_encoder_decode"
        /\ (CaseOver /\ calls # <<>> /\ calls[1].outcome.launched) =>
              (CasePassed <=> calls[1].outcome.returncode # 0)

\* The marker filter as claimed: some marker is a substring of the format
\* file's stem or equals the name of the fixture's category directory.
ClaimedKeep(pair, ms) ==
    \/ ms = <<>>
    \/ \E i \in 1..Len(ms) :
        \/ pair.toml_file # None /\ IsSubstring(ms[i], pair.toml_file[1].stem)
        \/ pair.toml_file # None /\ ms[i] = pair.toml_file[1].parent
        \/ pair.json_file # None /\ ms[i] = pair.json_file[1].parent

ClaimedCases ==
    LET located == _locate_test_pairs(tests_dir)
        kept == SelectSeq(located, LAMBDA pair :
                    ClaimedKeep(pair, markers) /\ generate_parameters(mode, pair) # None)
    IN  [i \in 1..Len(kept) |-> generate_parameters(mode, kept[i])[1].name]

\* C7: the marker filter never raises, and yields in order exactly the pairs
\* a marker matches (every pair when there are no markers).
C7_MarkerFilter ==
    /\ error # Some([exc |-> "AttributeError", where |-> "generator"])
    /\ pc = "done" => Names(results) = ClaimedCases

\* Some format file of valid/ has no JSON equivalent.
MissingPairing ==
    \E i \in 1..Len(tests_dir.valid_toml) :
        tests_dir.valid_toml[i] \notin tests_dir.valid_json

\* C9 as amended: a missing pairing is detected when the locator reaches
\* that file; the run then ends with an AssertionError that is not counted
\* as a pass or a failure, no later case is run, no summary is printed and
\* no exit code is returned.  Cases located before it may have been run.
C9_Lazy ==
    MissingPairing =>
        LET unpaired == {i \in 1..Len(tests_dir.valid_toml) :
                            tests_dir.valid_toml[i] \notin tests_dir.valid_json}
            first == Len(tests_dir.invalid_toml) + Len(tests_dir.invalid_json)
                     + CHOOSE i \in unpaired : \A j \in unpaired : i <= j
        IN  /\ pos <= first
            /\ pos = first <=> error = Some([exc |-> "AssertionError", where |-> "generator"])
            /\ pos = first => pc = "aborted"
            /\ pc # "done" /\ summary = None /\ exit_code = None
            /\ counts.pass + counts.fail = Len(results)
            /\ \A i \in 1..Len(results) :
                  results[i].name.parent = Valid =>
                      results[i].name.stem \in tests_dir.valid_json
            /\ (kwargs # None /\ kwargs[1].name.parent = Valid) =>
                  kwargs[1].name.stem \in tests_dir.valid_json

C9_Witness ==
    /\ MissingPairing
    /\ error = Some([exc |-> "AssertionError", where |-> "generator"])
    /\ pc = "aborted"
    /\ calls # <<>>
    /\ Len(results) = 2

\* C9 as claimed: with a missing pairing no program is invoked and no case
\* is reported or counted.
C9_Eager ==
    MissingPairing =>
        /\ calls = <<>>
        /\ results = <<>>
        /\ last = None
        /\ counts = [fail |-> 0, pass |-> 0]

====
